---- MODULE Spec2Model ----
(***************************************************************************)
(* FIFO stock ledger of the Stokbarang Flask application: the request      *)
(* handlers add_purchase, delete_purchase, add_sale and delete_sale of     *)
(* app.py acting on the tables of models.py (products, purchases, sales,   *)
(* stock_movements).                                                       *)
(*                                                                         *)
(* Quantities and prices are Python floats in the source.  The model draws *)
(* them from small sets of integers, which a float represents exactly, so  *)
(* sums, differences and products of them are exact; the one inexact       *)
(* operation, the division that yields cost_price, is modelled bit for bit *)
(* as an IEEE-754 double (FloatDiv).                                       *)
(***************************************************************************)
EXTENDS Integers, Sequences, FiniteSets, TLC

\* ---------------------------------------------------------------- bounds
NumProducts == 2
MaxLots == 2
MaxSales == 2
MaxTime == 1
MaxRequests == 4
MaxRefused == 1
NumWorkers == 2
MaxConcurrentRequests == 3

\* Products 1..NumProducts exist; 0 is a missing form field and
\* UnknownProduct an id with no row.
ProductIds == 1..NumProducts
UnknownProduct == NumProducts + 1
ProductInputs == 0..UnknownProduct
\* Form inputs; 0 is the invalid value the handlers reject.
Quantities == {0, 3, 7}
Prices == {0, 3, 5}
SellingPrices == {0, 9}
PurchaseIdInputs == 1..(MaxLots + 1)
SaleIdInputs == 1..(MaxSales + 1)

NoId == 0

\* Value of `origin` for the transaction that created a movement.
OriginOf(type, id) == [type |-> type, id |-> id]
NoOrigin == OriginOf("none", NoId)

\* Request threads of the server, each with a db.session of its own.
Workers == 1..NumWorkers
IdleSession ==
    [pc |-> "idle", op |-> "none", product_id |-> 0, quantity |-> 0, price |-> 0,
     stock |-> 0, taken |-> <<>>, total_cost |-> 0, lots |-> {}]

VARIABLES
    products,         \* ids of the rows of table products
    stock,            \* products.stock, per product id
    purchases,        \* rows of table purchases (the lots)
    sales,            \* rows of table sales
    stock_movements,  \* rows of table stock_movements
    clock,            \* last value returned by datetime.now()
    origin,           \* history: movement id -> the purchase or sale that created it
    requests,         \* number of requests committed so far
    refused,          \* number of requests refused so far
    sessions,         \* per request thread: its db.session and position in the handler
    last              \* the last request and the message it flashed

vars == <<products, stock, purchases, sales, stock_movements, clock, origin, requests,
          refused, sessions, last>>

\* ------------------------------------------------------------- helpers
Min(a, b) == IF a <= b THEN a ELSE b

MaxOf(S) == CHOOSE x \in S : \A y \in S : y <= x

RECURSIVE SumOver(_, _)
\* sum of f[r] over the rows r of S
SumOver(S, f) ==
    IF S = {} THEN 0
    ELSE LET r == CHOOSE x \in S : TRUE
         IN  f[r] + SumOver(S \ {r}, f)

\* INTEGER PRIMARY KEY of SQLite: the new rowid is the largest one plus one.
NextId(rows) == IF rows = {} THEN 1 ELSE MaxOf({r.id : r \in rows}) + 1

\* datetime.now(): not before the previous reading.
Now == {t \in {clock, clock + 1} : t <= MaxTime}

LotsOf(p) == {l \in purchases : l.product_id = p}

SumRemaining(p) ==
    SumOver(LotsOf(p), [l \in LotsOf(p) |-> l.remaining_quantity])

\* ------------------------------------------------- IEEE-754 double floats
\* A positive double is mantissa * 2^e with 2^52 <= mantissa < 2^53; the
\* mantissa is kept in two limbs, mantissa = hi * 2^26 + lo, so that every
\* intermediate value fits a 32-bit integer.  Zero is [hi |-> 0, lo |-> 0, e |-> 0].
Limb == 67108864
HiMax == 134217728
FloatZero == [hi |-> 0, lo |-> 0, e |-> 0]

\* Adds one unit in the last place, renormalising on carry.
FloatNextUp(x) ==
    IF x.lo + 1 < Limb THEN [x EXCEPT !.lo = x.lo + 1]
    ELSE IF x.hi + 1 < HiMax THEN [x EXCEPT !.hi = x.hi + 1, !.lo = 0]
    ELSE [hi |-> Limb, lo |-> 0, e |-> x.e + 1]

RECURSIVE DivNormalise(_, _, _, _)
\* Long division: shifts quotient bits in until the high limb is full.
DivNormalise(q, r, b, k) ==
    IF q >= Limb THEN [q |-> q, r |-> r, k |-> k]
    ELSE DivNormalise(2 * q + ((2 * r) \div b), (2 * r) % b, b, k + 1)

RECURSIVE DivBits(_, _, _, _)
\* n further quotient bits of r / b.
DivBits(q, r, b, n) ==
    IF n = 0 THEN [q |-> q, r |-> r]
    ELSE DivBits(2 * q + ((2 * r) \div b), (2 * r) % b, b, n - 1)

\* a / b on floats holding the integers a >= 0 and b > 0: the quotient
\* rounded to 53 bits, to nearest, ties to even.
FloatDiv(a, b) ==
    IF a = 0 THEN FloatZero
    ELSE LET h == DivNormalise(a \div b, a % b, b, 0)
             l == DivBits(0, h.r, b, 26)
             x == [hi |-> h.q, lo |-> l.q, e |-> 0 - (h.k + 26)]
         IN  IF 2 * l.r > b \/ (2 * l.r = b /\ l.q % 2 = 1)
             THEN FloatNextUp(x) ELSE x

IntToFloat(n) == FloatDiv(n, 1)

RECURSIVE MulNormalise(_, _, _, _, _)
\* Shifts an over-wide product right until 53 bits remain, remembering the
\* last bit shifted out (guard) and whether any earlier one was set (sticky).
MulNormalise(hi, lo, e, guard, sticky) ==
    IF hi < HiMax
    THEN LET x == [hi |-> hi, lo |-> lo, e |-> e]
         IN  IF guard = 1 /\ (sticky \/ lo % 2 = 1) THEN FloatNextUp(x) ELSE x
    ELSE MulNormalise(hi \div 2, (lo \div 2) + (hi % 2) * (Limb \div 2), e + 1,
                      lo % 2, sticky \/ guard = 1)

\* n * x on floats, n a float holding an integer in 0..15: the exact product
\* rounded to 53 bits, to nearest, ties to even.
FloatMulInt(n, x) ==
    IF n = 0 \/ x = FloatZero THEN FloatZero
    ELSE LET plo == n * x.lo
         IN  MulNormalise(n * x.hi + (plo \div Limb), plo % Limb, x.e, 0, FALSE)

RECURSIVE ShiftRight(_, _, _, _, _)
\* Shifts a mantissa right by d bits, remembering the last bit shifted out
\* (guard) and whether any earlier one was set (sticky).
ShiftRight(hi, lo, d, guard, sticky) ==
    IF d = 0 \/ (hi = 0 /\ lo = 0)
    THEN [hi |-> hi, lo |-> lo, guard |-> IF d = 0 THEN guard ELSE 0,
          sticky |-> sticky \/ (d > 0 /\ guard = 1)]
    ELSE ShiftRight(hi \div 2, (lo \div 2) + (hi % 2) * (Limb \div 2), d - 1,
                    lo % 2, sticky \/ guard = 1)

\* x + y on non-negative floats: the exact sum rounded to 53 bits, to
\* nearest, ties to even.
FloatAdd(x, y) ==
    IF x = FloatZero THEN y
    ELSE IF y = FloatZero THEN x
    ELSE LET big == IF x.e >= y.e THEN x ELSE y
             small == IF x.e >= y.e THEN y ELSE x
             s == ShiftRight(small.hi, small.lo, big.e - small.e, 0, FALSE)
             lo == big.lo + s.lo
         IN  MulNormalise(big.hi + s.hi + (lo \div Limb), lo % Limb, big.e,
                          s.guard, s.sticky)

RECURSIVE ShiftLeft3(_, _, _, _)
\* The three-limb integer h * 2^52 + m * 2^26 + l shifted left by d bits.
ShiftLeft3(h, m, l, d) ==
    IF d = 0 THEN [h |-> h, m |-> m, l |-> l]
    ELSE ShiftLeft3(2 * h + ((2 * m) \div Limb), ((2 * m) % Limb) + ((2 * l) \div Limb),
                    (2 * l) % Limb, d - 1)

RECURSIVE SubNormalise(_, _, _, _, _, _)
\* Brings a three-limb difference back to 53 bits: shifted right with guard
\* and sticky bits and then rounded, or shifted left, which is exact.
SubNormalise(h, m, l, e, guard, sticky) ==
    IF h >= 2
    THEN SubNormalise(h \div 2, (m \div 2) + (h % 2) * (Limb \div 2),
                      (l \div 2) + (m % 2) * (Limb \div 2), e + 1,
                      l % 2, sticky \/ guard = 1)
    ELSE IF h = 0
    THEN SubNormalise((2 * m) \div Limb, ((2 * m) % Limb) + ((2 * l) \div Limb),
                      (2 * l) % Limb, e - 1, 0, FALSE)
    ELSE LET x == [hi |-> Limb + m, lo |-> l, e |-> e]
         IN  IF guard = 1 /\ (sticky \/ l % 2 = 1) THEN FloatNextUp(x) ELSE x

\* x - y on floats with x >= y >= 0 whose exponents are at most 25 apart
\* (the aligned operand then fits three limbs): the exact difference rounded to 53 bits, to nearest, ties to even.
FloatSub(x, y) ==
    IF y = FloatZero THEN x
    ELSE IF x = y THEN FloatZero
    ELSE LET X == ShiftLeft3(x.hi \div Limb, x.hi % Limb, x.lo, x.e - y.e)
             l == X.l - y.lo
             m == X.m - (y.hi % Limb) - (IF l < 0 THEN 1 ELSE 0)
             h == X.h - (y.hi \div Limb) - (IF m < 0 THEN 1 ELSE 0)
         IN  SubNormalise(h, (m + Limb) % Limb, (l + Limb) % Limb, y.e, 0, FALSE)

\* ------------------------------------------------------------ the ledger
Init ==
    /\ products = ProductIds
    /\ stock = [p \in ProductIds |-> 0]
    /\ purchases = {}
    /\ sales = {}
    /\ stock_movements = {}
    /\ clock = 0
    /\ origin = [m \in {} |-> NoOrigin]
    /\ requests = 0
    /\ refused = 0
    /\ sessions = [w \in Workers |-> IdleSession]
    /\ last = [op |-> "none", product_id |-> 0, quantity |-> 0, id |-> NoId,
               flash |-> "none", pre_stock |-> [p \in ProductIds |-> 0],
               pre_purchases |-> {}]

\* The messages the handlers flash.
SaleOk == "Penjualan berhasil diproses!"
SaleDeleted == "Penjualan berhasil dibatalkan!"
PurchaseOk == "Pembelian berhasil ditambahkan!"
PurchaseDeleted == "Pembelian berhasil dihapus!"
StockShort == "Stok tidak cukup!"
FifoShort == "Error dalam perhitungan FIFO!"
InvalidData == "Data tidak valid!"
NotFound == "Error: 404"

\* What a request leaves in `last`: the request and its flashed message.  The
\* arguments are kept for the requests that reach the stock check; a request
\* refused before it (invalid form data, unknown id) leaves only its message.
\* pre_stock and pre_purchases keep the ledger a committed sale started from.
Response(op, p, q, id, msg) ==
    [op |-> op, product_id |-> p, quantity |-> q, id |-> id, flash |-> msg,
     pre_stock |-> [x \in ProductIds |-> 0], pre_purchases |-> {}]

\* A request that writes nothing: an early return, or an exception followed
\* by db.session.rollback().
Rejected(op, p, q, id, msg) ==
    /\ last' = Response(op, p, q, id, msg)
    /\ UNCHANGED <<products, stock, purchases, sales, stock_movements, clock, origin,
                   requests>>

\* The check of add_purchase letting a quantity of 0 through.
InvalidPurchaseFormLax(product_id, quantity, price) ==
    product_id = 0 \/ quantity < 0 \/ price <= 0

\* not product_id or quantity <= 0 or price <= 0; a missing product_id is 0.
InvalidPurchaseForm(product_id, quantity, price) ==
    product_id = 0 \/ quantity <= 0 \/ price <= 0

\* not product_id or quantity <= 0 or selling_price <= 0
InvalidSaleForm(product_id, quantity, selling_price) ==
    product_id = 0 \/ quantity <= 0 \/ selling_price <= 0

\* Purchase(...) left at the column default remaining_quantity = 0.
NewPurchaseUnfilled(id, p, q, price, rem, d) ==
    [id |-> id, product_id |-> p, quantity |-> q, price |-> price,
     remaining_quantity |-> 0, date |-> d]

\* Purchase(...): remaining_quantity is the keyword argument, or the quantity
\* when that argument is 0.
NewPurchase(id, p, q, price, rem, d) ==
    [id |-> id, product_id |-> p, quantity |-> q, price |-> price,
     remaining_quantity |-> IF rem = 0 THEN q ELSE rem, date |-> d]

\* The purchase_id of the inflow movement: purchase.id read before the
\* purchase is added to the session and flushed, which is None.
InflowPurchaseId(id) == NoId

add_purchase(product_id, quantity, price) ==
    IF InvalidPurchaseForm(product_id, quantity, price)
    THEN Rejected("add_purchase", 0, 0, NoId, InvalidData)
    ELSE IF product_id \notin products
    THEN Rejected("add_purchase", 0, 0, NoId, NotFound)
    ELSE
      /\ Cardinality(purchases) < MaxLots
      /\ requests < MaxRequests
      /\ \E d \in Now :
           LET id == NextId(purchases)
               purchase == NewPurchase(id, product_id, quantity, price, quantity, d)
               movement == [id |-> NextId(stock_movements), product_id |-> product_id,
                            purchase_id |-> InflowPurchaseId(id), quantity |-> quantity,
                            price |-> price, type |-> "purchase"]
           IN  /\ stock' = [stock EXCEPT ![product_id] = @ + quantity]
               /\ purchases' = purchases \cup {purchase}
               /\ stock_movements' = stock_movements \cup {movement}
               /\ clock' = d
               /\ last' = Response("add_purchase", product_id, quantity, id,
                                   PurchaseOk)
               /\ requests' = requests + 1
               /\ origin' = [m \in (DOMAIN origin) \cup {movement.id} |->
                                IF m \in DOMAIN origin THEN origin[m]
                                ELSE OriginOf("purchase", id)]
               /\ UNCHANGED <<products, sales>>

\* What delete_purchase subtracts from product.stock.
PurchaseStockEffect(purchase) == purchase.quantity

\* The movements delete_purchase deletes: filter_by(purchase_id=id).
MovementsOfPurchase(id) == {m \in stock_movements : m.purchase_id = id}

\* delete_purchase recomputing history: the product's sales lose their cost.
SalesRecostedAfterPurchaseDelete(purchase) ==
    {IF s.product_id = purchase.product_id THEN [s EXCEPT !.cost_price = FloatZero] ELSE s
        : s \in sales}

\* The sales after delete_purchase: the handler writes no sale row.
SalesAfterPurchaseDelete(purchase) == sales

delete_purchase(id) ==
    IF \A l \in purchases : l.id # id
    THEN Rejected("delete_purchase", 0, 0, NoId, NotFound)
    ELSE LET purchase == CHOOSE l \in purchases : l.id = id
             gone == MovementsOfPurchase(id)
         IN  /\ requests < MaxRequests
             /\ stock' = [stock EXCEPT ![purchase.product_id] = @ - PurchaseStockEffect(purchase)]
             /\ stock_movements' = stock_movements \ gone
             /\ origin' = [m \in (DOMAIN origin) \ {x.id : x \in gone} |-> origin[m]]
             /\ purchases' = purchases \ {purchase}
             /\ last' = Response("delete_purchase", purchase.product_id,
                                 purchase.quantity, id, PurchaseDeleted)
             /\ requests' = requests + 1
             /\ sales' = SalesAfterPurchaseDelete(purchase)
             /\ UNCHANGED <<products, clock>>

\* The sequences that list the rows of lots once each, by ascending date.
OrderedByDate(lots) ==
    LET n == Cardinality(lots)
    IN  {o \in [1..n -> lots] :
            /\ \A i, j \in 1..n : i # j => o[i] # o[j]
            /\ \A i, j \in 1..n : i < j => o[i].date <= o[j].date}

\* The open lots of every product: the query without filter_by(product_id).
OpenLotsAnyProduct(p) == {l \in purchases : l.remaining_quantity > 0}

\* filter_by(product_id=product_id).filter(Purchase.remaining_quantity > 0)
OpenLots(p) == {l \in LotsOf(p) : l.remaining_quantity > 0}

\* The same lots, newest first (ORDER BY date DESC).
NewestFirstOrders(p) ==
    LET lots == {l \in LotsOf(p) : l.remaining_quantity > 0}
        n == Cardinality(lots)
    IN  {o \in [1..n -> lots] :
            /\ \A i, j \in 1..n : i # j => o[i] # o[j]
            /\ \A i, j \in 1..n : i < j => o[i].date >= o[j].date}

\* The lots add_sale walks: remaining_quantity > 0, ORDER BY date ASC.  Rows
\* of equal date come in an order the query does not fix.
FifoOrders(p) == OrderedByDate(OpenLots(p))

\* qty_to_take without the min(): the whole remaining need from one lot.
QtyToTakeUnclamped(lot_remaining, remaining_qty) == remaining_qty

\* qty_to_take of one loop iteration.
QtyToTake(lot_remaining, remaining_qty) == Min(lot_remaining, remaining_qty)

RECURSIVE Allocate(_, _, _)
\* The for loop of add_sale from iteration i on.  acc carries remaining_qty,
\* total_cost and, in taken, one <<purchase id, qty_to_take, price>> per
\* movement appended to `movements`.
Allocate(order, i, acc) ==
    IF i > Len(order) \/ acc.remaining_qty <= 0 THEN acc
    ELSE LET purchase == order[i]
             qty_to_take == QtyToTake(purchase.remaining_quantity, acc.remaining_qty)
         IN  Allocate(order, i + 1,
                [remaining_qty |-> acc.remaining_qty - qty_to_take,
                 total_cost |-> acc.total_cost + qty_to_take * purchase.price,
                 taken |-> Append(acc.taken, <<purchase.id, qty_to_take, purchase.price>>)])

\* Quantity the allocation took from lot id (0 when the loop did not reach it).
TakenFrom(taken, id) ==
    IF \E i \in 1..Len(taken) : taken[i][1] = id
    THEN taken[CHOOSE i \in 1..Len(taken) : taken[i][1] = id][2]
    ELSE 0

\* The pre-check of add_sale on the cached product.stock.
StockCheckFails(p, quantity) == stock[p] < quantity

\* The decremented lots written through, as a commit on the early return would.
AbandonedLotsFlushed(lots, taken) ==
    {[l EXCEPT !.remaining_quantity = @ - TakenFrom(taken, l.id)] : l \in lots}

\* What becomes of the decremented lots when the loop ends with
\* remaining_qty > 0: the handler returns without commit, and the session is
\* discarded with the request, so the stored rows stay as they were.
AbandonedLots(lots, taken) == lots

\* The movement of one loop iteration with the sign of the quantity dropped.
SaleMovementUnsigned(id, product_id, entry) ==
    [id |-> id, product_id |-> product_id, purchase_id |-> entry[1],
     quantity |-> entry[2], price |-> entry[3], type |-> "sale"]

\* StockMovement(...) of one loop iteration; entry is the
\* <<purchase id, qty_to_take, price>> of that iteration.
SaleMovement(id, product_id, entry) ==
    [id |-> id, product_id |-> product_id, purchase_id |-> entry[1],
     quantity |-> 0 - entry[2], price |-> entry[3], type |-> "sale"]

add_sale(product_id, quantity, selling_price) ==
    IF InvalidSaleForm(product_id, quantity, selling_price)
    THEN Rejected("add_sale", 0, 0, NoId, InvalidData)
    ELSE IF product_id \notin products
    THEN Rejected("add_sale", 0, 0, NoId, NotFound)
    ELSE IF StockCheckFails(product_id, quantity)
    THEN Rejected("add_sale", product_id, quantity, NoId, StockShort)
    ELSE \E order \in FifoOrders(product_id) :
      LET a == Allocate(order, 1, [remaining_qty |-> quantity, total_cost |-> 0, taken |-> <<>>])
      IN  IF a.remaining_qty > 0
          THEN /\ purchases' = AbandonedLots(purchases, a.taken)
               /\ last' = Response("add_sale", product_id, quantity, NoId,
                                   FifoShort)
               /\ UNCHANGED <<products, stock, sales, stock_movements, clock, origin,
                              requests>>
          ELSE
            /\ Cardinality(sales) < MaxSales
            /\ requests < MaxRequests
            /\ \E d \in Now :
                 LET sid == NextId(sales)
                     base == NextId(stock_movements) - 1
                     movements == {SaleMovement(base + i, product_id, a.taken[i])
                                   : i \in 1..Len(a.taken)}
                     sale == [id |-> sid, product_id |-> product_id, quantity |-> quantity,
                              selling_price |-> selling_price,
                              cost_price |-> FloatDiv(a.total_cost, quantity),
                              date |-> d]
                 IN  /\ purchases' = {[l EXCEPT !.remaining_quantity = @ - TakenFrom(a.taken, l.id)]
                                      : l \in purchases}
                     /\ stock' = [stock EXCEPT ![product_id] = @ - quantity]
                     /\ sales' = sales \cup {sale}
                     /\ stock_movements' = stock_movements \cup movements
                     /\ origin' = [m \in (DOMAIN origin) \cup {x.id : x \in movements} |->
                                     IF m \in DOMAIN origin THEN origin[m]
                                     ELSE OriginOf("sale", sid)]
                     /\ clock' = d
                     /\ requests' = requests + 1
                     /\ last' = [Response("add_sale", product_id, quantity, sid,
                                          SaleOk)
                                 EXCEPT !.pre_stock = stock, !.pre_purchases = purchases]
                     /\ UNCHANGED products

\* The movements delete_sale deletes: filter_by(product_id=sale.product_id, type='sale').
MovementsDeletedWithSale(sale) ==
    {m \in stock_movements : m.product_id = sale.product_id /\ m.type = "sale"}

\* The lots after delete_sale: the handler writes no purchase row.
LotsAfterSaleDelete(sale) == purchases

delete_sale(id) ==
    IF \A s \in sales : s.id # id
    THEN Rejected("delete_sale", 0, 0, NoId, NotFound)
    ELSE LET sale == CHOOSE s \in sales : s.id = id
             gone == MovementsDeletedWithSale(sale)
         IN  /\ requests < MaxRequests
             /\ stock' = [stock EXCEPT ![sale.product_id] = @ + sale.quantity]
             /\ stock_movements' = stock_movements \ gone
             /\ origin' = [m \in (DOMAIN origin) \ {x.id : x \in gone} |-> origin[m]]
             /\ purchases' = LotsAfterSaleDelete(sale)
             /\ sales' = sales \ {sale}
             /\ last' = Response("delete_sale", sale.product_id, sale.quantity, id,
                                 SaleDeleted)
             /\ requests' = requests + 1
             /\ UNCHANGED <<products, clock>>

\* ----------------------------------------------------------- delete_product
AccessDenied == "Akses ditolak! Hanya admin yang bisa menghapus produk."
ProductInUse == "Tidak bisa menghapus produk yang sudah memiliki transaksi!"
ProductDeleted == "Produk berhasil dihapus!"
IntegrityError == "Error: NOT NULL constraint failed: stock_movements.product_id"

\* The transaction check looking at the purchases only.
HasPurchasesOnly(id) == \E l \in purchases : l.product_id = id

\* has_purchases or has_sales.
HasTransactions(id) ==
    \/ \E l \in purchases : l.product_id = id
    \/ \E s \in sales : s.product_id = id

\* db.session.delete(product) sets product_id of the product's remaining
\* stock_movements rows to NULL, which the NOT NULL column refuses.
OrphansMovements(id) == \E m \in stock_movements : m.product_id = id

delete_product(id, is_admin) ==
    IF ~is_admin
    THEN Rejected("delete_product", 0, 0, NoId, AccessDenied)
    ELSE IF id \notin products
    THEN Rejected("delete_product", 0, 0, NoId, NotFound)
    ELSE IF HasTransactions(id)
    THEN Rejected("delete_product", id, 0, NoId, ProductInUse)
    ELSE IF OrphansMovements(id)
    THEN Rejected("delete_product", id, 0, NoId, IntegrityError)
    ELSE /\ requests < MaxRequests
         /\ products' = products \ {id}
         /\ last' = Response("delete_product", id, 0, NoId, ProductDeleted)
         /\ requests' = requests + 1
         /\ UNCHANGED <<stock, purchases, sales, stock_movements, clock, origin>>

\* The messages of the requests that were refused.
Refusals ==
    {StockShort, FifoShort, InvalidData, NotFound, AccessDenied, ProductInUse,
     IntegrityError}

\* Counts the step if it flashed a refusal; runs end after MaxRefused of them.
CountRefused ==
    /\ refused < MaxRefused
    /\ refused' = IF last' # last /\ last'.flash \in Refusals
                  THEN refused + 1 ELSE refused

\* One request at a time: every handler runs from its first line to its
\* commit before the next request starts.
Next ==
    /\ \/ \E p \in ProductInputs, q \in Quantities, price \in Prices : add_purchase(p, q, price)
       \/ \E id \in PurchaseIdInputs : delete_purchase(id)
       \/ \E p \in ProductInputs, q \in Quantities, sp \in SellingPrices : add_sale(p, q, sp)
       \/ \E id \in SaleIdInputs : delete_sale(id)
       \/ \E id \in ProductInputs, is_admin \in BOOLEAN : delete_product(id, is_admin)
    /\ CountRefused
    /\ UNCHANGED sessions

Spec == Init /\ [][Next]_vars

\* ------------------------------------------------------------ properties
\* The step is a committed add_sale / delete_sale / delete_purchase.
SaleStep == last'.op = "add_sale" /\ last'.flash = SaleOk /\ requests' = requests + 1
SaleDeleteStep == last'.op = "delete_sale" /\ last'.flash = SaleDeleted /\ requests' = requests + 1
PurchaseDeleteStep ==
    last'.op = "delete_purchase" /\ last'.flash = PurchaseDeleted /\ requests' = requests + 1

\* The movements a sale created.
MovementsOfSale(sid) ==
    {m \in stock_movements : origin[m.id] = OriginOf("sale", sid)}

\* Remaining quantity of lot id after the step (the lot survives the step).
RemainingAfter(id) == (CHOOSE l \in purchases' : l.id = id).remaining_quantity

\* C1: after every operation and for every product, product.stock equals the
\* sum of remaining_quantity over the product's existing purchase lots.
C1_StockEqualsLotTotal == \A p \in ProductIds : stock[p] = SumRemaining(p)

\* C2: every lot satisfies 0 <= remaining_quantity <= quantity in every
\* reachable state, and a lot starts with remaining_quantity = quantity in the
\* step that creates it.
C2_RemainingWithinQuantity ==
    /\ [](\A l \in purchases :
             0 <= l.remaining_quantity /\ l.remaining_quantity <= l.quantity)
    /\ [][\A l \in purchases' :
             (last'.op = "add_purchase" /\ last'.flash = PurchaseOk /\ l.id = last'.id)
                 => l.remaining_quantity = l.quantity]_vars

\* C2 witness: a sale has just taken part of a lot, leaving it neither full
\* nor empty.
C2_Witness ==
    /\ last.op = "add_sale" /\ last.flash = SaleOk
    /\ \E l \in purchases : 0 < l.remaining_quantity /\ l.remaining_quantity < l.quantity

\* The worked example: lots of 10 at price 5 (date 1) and 10 at price 7
\* (date 2), a sale of 15.
ExampleLots ==
    {NewPurchase(1, 1, 10, 5, 10, 1), NewPurchase(2, 1, 10, 7, 10, 2)}
ExampleAllocation ==
    {Allocate(o, 1, [remaining_qty |-> 15, total_cost |-> 0, taken |-> <<>>])
        : o \in OrderedByDate(ExampleLots)}

\* C3: a committed sale of quantity q takes from the product's lots in
\* ascending date order: every lot keeps its identity, gives between 0 and its
\* remaining quantity, only lots of that product give, the amounts given sum
\* to q, a later lot gives only when every strictly earlier lot is emptied,
\* and cost_price is the total cost (amount given times lot price) over q.
\* On the worked example the allocation takes 10 of the first lot and 5 of
\* the second, at a total cost of 85.
C3_FifoConsumption ==
    /\ [](ExampleAllocation =
            {[remaining_qty |-> 0, total_cost |-> 85,
              taken |-> << <<1, 10, 5>>, <<2, 5, 7>> >>]})
    /\ [][SaleStep =>
           LET p == last'.product_id
               q == last'.quantity
               given == [l \in purchases |-> l.remaining_quantity - RemainingAfter(l.id)]
               cost == SumOver(purchases, [l \in purchases |-> given[l] * l.price])
           IN  /\ {l.id : l \in purchases'} = {l.id : l \in purchases}
               /\ \A l \in purchases :
                    /\ 0 <= given[l] /\ given[l] <= l.remaining_quantity
                    /\ l.product_id # p => given[l] = 0
                    /\ [l EXCEPT !.remaining_quantity = @ - given[l]] \in purchases'
               /\ SumOver(purchases, given) = q
               /\ \A l1, l2 \in LotsOf(p) :
                    (l1.date < l2.date /\ given[l2] > 0) => given[l1] = l1.remaining_quantity
               /\ \E s \in sales' : s.id = last'.id /\ s.cost_price = FloatDiv(cost, q)
       ]_vars

\* C3 witness: the last sale emptied an older lot and took part of a newer one.
C3_Witness ==
    /\ last.op = "add_sale" /\ last.flash = SaleOk
    /\ \E l1, l2 \in LotsOf(last.product_id) :
         /\ l1.date < l2.date
         /\ l1.remaining_quantity = 0
         /\ 0 < l2.remaining_quantity /\ l2.remaining_quantity < l2.quantity
         /\ \E m1, m2 \in MovementsOfSale(last.id) :
              m1.purchase_id = l1.id /\ m2.purchase_id = l2.id

\* C4: for every committed sale the quantities taken from the touched lots
\* (one movement per lot) sum to the sale's quantity, and quantity * cost_price
\* equals the sum over those movements of quantity taken * lot price.
C4_CostIsWeightedAverage ==
    [][SaleStep =>
        LET sale == CHOOSE s \in sales' : s.id = last'.id
            created == stock_movements' \ stock_movements
            taken == [m \in created |-> 0 - m.quantity]
            cost == [m \in created |-> (0 - m.quantity) * m.price]
        IN  /\ SumOver(created, taken) = sale.quantity
            /\ FloatMulInt(sale.quantity, sale.cost_price)
                 = IntToFloat(SumOver(created, cost))
    ]_vars

\* C5: a sale asking for more than the sum of the product's remaining
\* quantities is refused, by the stock check or by the allocation running out
\* of lots, and leaves lots, stock, sales and movements as they were.
C5_ShortSaleChangesNothing ==
    [][(/\ last'.op = "add_sale"
        /\ last'.product_id \in ProductIds
        /\ last'.quantity > SumRemaining(last'.product_id))
       => /\ last'.flash \in {StockShort, FifoShort}
          /\ UNCHANGED <<stock, purchases, sales, stock_movements>>
    ]_vars

\* C5 witness: the stock check passed on a stale product.stock and the
\* allocation then ran out of lots.
C5_Witness ==
    /\ last.op = "add_sale" /\ last.flash = FifoShort
    /\ last.quantity > SumRemaining(last.product_id)
    /\ last.quantity <= stock[last.product_id]
    /\ \E l \in LotsOf(last.product_id) : l.remaining_quantity > 0

\* C6: add_sale immediately followed by delete_sale of that sale restores
\* every lot and product.stock to the values they had before the sale and
\* removes the movements the sale created.
C6_SaleRoundTrip ==
    [][(/\ last.op = "add_sale" /\ last.flash = SaleOk
        /\ SaleDeleteStep /\ last'.id = last.id)
       => /\ purchases' = last.pre_purchases
          /\ stock' = last.pre_stock
          /\ \A m \in stock_movements' : origin'[m.id] # OriginOf("sale", last.id)
    ]_vars

\* C7: delete_purchase of a lot with remaining_quantity < quantity is refused
\* and changes nothing: the lot, product.stock and the movements stay.
C7_ConsumedLotNotDeleted ==
    [][\A l \in purchases :
         (/\ last'.op = "delete_purchase" /\ last'.id = l.id
          /\ l.remaining_quantity < l.quantity)
         => /\ last'.flash # PurchaseDeleted
            /\ l \in purchases'
            /\ UNCHANGED <<stock, stock_movements>>
    ]_vars

\* C8: delete_sale deletes only the movements that sale created; the
\* movements the product's other sales created are still present afterwards.
C8_ReversalScopedToSale ==
    [][SaleDeleteStep =>
         stock_movements \ stock_movements' = MovementsOfSale(last'.id)
    ]_vars

\* C9: after delete_purchase of a lot no movement created by that lot's
\* purchase or referencing the lot through purchase_id remains.
C9_PurchaseMovementsDeleted ==
    [][PurchaseDeleteStep =>
         \A m \in stock_movements' :
            /\ m.purchase_id # last'.id
            /\ origin'[m.id] # OriginOf("purchase", last'.id)
    ]_vars

\* ------------------------------------------------- concurrent requests
\* add_purchase and add_sale served by request threads that run side by side.
\* A thread reads through its own session: the SELECTs of a handler each see
\* the rows committed so far, the handler computes on the objects it loaded,
\* and db.session.commit() writes the values it computed (UPDATE ... SET
\* stock = <value>, remaining_quantity = <value>) and the new rows in one
\* database transaction.  No lock or version check spans the handler.
InFlight == Cardinality({w \in Workers : sessions[w].pc # "idle"})

\* Request rejected before anything is loaded for writing.
RejectedEarly(op, p, q, msg) ==
    /\ last' = Response(op, p, q, NoId, msg)
    /\ UNCHANGED <<stock, purchases, sales, stock_movements, clock, origin,
                   requests, sessions>>

\* add_purchase up to Product.query.get_or_404: validates and loads the product.
purchase_load(w, product_id, quantity, price) ==
    /\ sessions[w].pc = "idle"
    /\ IF InvalidPurchaseForm(product_id, quantity, price)
       THEN RejectedEarly("add_purchase", 0, 0, InvalidData)
       ELSE IF product_id \notin products
       THEN RejectedEarly("add_purchase", 0, 0, NotFound)
       ELSE /\ requests + InFlight < MaxConcurrentRequests
            /\ Cardinality(purchases)
                 + Cardinality({v \in Workers : sessions[v].op = "add_purchase"}) < MaxLots
            /\ sessions' = [sessions EXCEPT ![w] =
                   [IdleSession EXCEPT !.pc = "commit", !.op = "add_purchase",
                       !.product_id = product_id, !.quantity = quantity,
                       !.price = price, !.stock = stock[product_id]]]
            /\ UNCHANGED <<stock, purchases, sales, stock_movements, clock, origin,
                           requests, last>>

\* The rest of add_purchase: product.stock += quantity on the loaded product,
\* the new rows, commit.
purchase_commit(w) ==
    LET ses == sessions[w]
    IN  /\ ses.pc = "commit" /\ ses.op = "add_purchase"
        /\ \E d \in Now :
             LET id == NextId(purchases)
                 purchase == NewPurchase(id, ses.product_id, ses.quantity, ses.price,
                                         ses.quantity, d)
                 movement == [id |-> NextId(stock_movements), product_id |-> ses.product_id,
                              purchase_id |-> InflowPurchaseId(id), quantity |-> ses.quantity,
                              price |-> ses.price, type |-> "purchase"]
             IN  /\ stock' = [stock EXCEPT ![ses.product_id] = ses.stock + ses.quantity]
                 /\ purchases' = purchases \cup {purchase}
                 /\ stock_movements' = stock_movements \cup {movement}
                 /\ origin' = [m \in (DOMAIN origin) \cup {movement.id} |->
                                  IF m \in DOMAIN origin THEN origin[m]
                                  ELSE OriginOf("purchase", id)]
                 /\ clock' = d
                 /\ requests' = requests + 1
                 /\ sessions' = [sessions EXCEPT ![w] = IdleSession]
                 /\ last' = Response("add_purchase", ses.product_id, ses.quantity, id,
                                     PurchaseOk)
                 /\ UNCHANGED sales

\* add_sale up to the stock check: validates, loads the product, compares
\* the loaded product.stock with the quantity.
sale_load(w, product_id, quantity, selling_price) ==
    /\ sessions[w].pc = "idle"
    /\ IF InvalidSaleForm(product_id, quantity, selling_price)
       THEN RejectedEarly("add_sale", 0, 0, InvalidData)
       ELSE IF product_id \notin products
       THEN RejectedEarly("add_sale", 0, 0, NotFound)
       ELSE IF StockCheckFails(product_id, quantity)
       THEN RejectedEarly("add_sale", product_id, quantity, StockShort)
       ELSE /\ requests + InFlight < MaxConcurrentRequests
            /\ Cardinality(sales)
                 + Cardinality({v \in Workers : sessions[v].op = "add_sale"}) < MaxSales
            /\ sessions' = [sessions EXCEPT ![w] =
                   [IdleSession EXCEPT !.pc = "query", !.op = "add_sale",
                       !.product_id = product_id, !.quantity = quantity,
                       !.price = selling_price, !.stock = stock[product_id]]]
            /\ UNCHANGED <<stock, purchases, sales, stock_movements, clock, origin,
                           requests, last>>

\* add_sale from the Purchase query to the end of the loop: loads the lots
\* and decrements them in the session.
sale_allocate(w) ==
    LET ses == sessions[w]
    IN  /\ ses.pc = "query"
        /\ \E order \in FifoOrders(ses.product_id) :
             LET a == Allocate(order, 1, [remaining_qty |-> ses.quantity,
                                          total_cost |-> 0, taken |-> <<>>])
             IN  IF a.remaining_qty > 0
                 THEN /\ sessions' = [sessions EXCEPT ![w] = IdleSession]
                      /\ last' = Response("add_sale", ses.product_id, ses.quantity,
                                          NoId, FifoShort)
                      /\ UNCHANGED <<stock, purchases, sales, stock_movements, clock,
                                     origin, requests>>
                 ELSE /\ sessions' = [sessions EXCEPT ![w] =
                             [ses EXCEPT !.pc = "commit", !.taken = a.taken,
                                 !.total_cost = a.total_cost,
                                 !.lots = {[id |-> order[i].id,
                                            remaining_quantity |->
                                                order[i].remaining_quantity - a.taken[i][2]]
                                           : i \in 1..Len(a.taken)}]]
                      /\ UNCHANGED <<stock, purchases, sales, stock_movements, clock,
                                     origin, requests, last>>

\* The rest of add_sale: product.stock -= quantity on the loaded product, the
\* sale and its movements, commit.
sale_commit(w) ==
    LET ses == sessions[w]
    IN  /\ ses.pc = "commit" /\ ses.op = "add_sale"
        /\ \E d \in Now :
             LET sid == NextId(sales)
                 base == NextId(stock_movements) - 1
                 movements == {SaleMovement(base + i, ses.product_id, ses.taken[i])
                               : i \in 1..Len(ses.taken)}
                 sale == [id |-> sid, product_id |-> ses.product_id,
                          quantity |-> ses.quantity, selling_price |-> ses.price,
                          cost_price |-> FloatDiv(ses.total_cost, ses.quantity),
                          date |-> d]
                 written(l) == IF \E u \in ses.lots : u.id = l.id
                               THEN (CHOOSE u \in ses.lots : u.id = l.id).remaining_quantity
                               ELSE l.remaining_quantity
             IN  /\ purchases' = {[l EXCEPT !.remaining_quantity = written(l)] : l \in purchases}
                 /\ stock' = [stock EXCEPT ![ses.product_id] = ses.stock - ses.quantity]
                 /\ sales' = sales \cup {sale}
                 /\ stock_movements' = stock_movements \cup movements
                 /\ origin' = [m \in (DOMAIN origin) \cup {x.id : x \in movements} |->
                                  IF m \in DOMAIN origin THEN origin[m]
                                  ELSE OriginOf("sale", sid)]
                 /\ clock' = d
                 /\ requests' = requests + 1
                 /\ sessions' = [sessions EXCEPT ![w] = IdleSession]
                 /\ last' = [Response("add_sale", ses.product_id, ses.quantity, sid, SaleOk)
                             EXCEPT !.pre_stock = stock, !.pre_purchases = purchases]

NextConcurrent ==
    /\ \E w \in Workers :
           \/ \E p \in ProductInputs, q \in Quantities, price \in Prices :
                  purchase_load(w, p, q, price)
           \/ purchase_commit(w)
           \/ \E p \in ProductInputs, q \in Quantities, sp \in SellingPrices :
                  sale_load(w, p, q, sp)
           \/ sale_allocate(w)
           \/ sale_commit(w)
    /\ CountRefused
    /\ UNCHANGED products

SpecConcurrent == Init /\ [][NextConcurrent]_vars

PurchasedQuantity(p) == SumOver(LotsOf(p), [l \in LotsOf(p) |-> l.quantity])
SalesOf(p) == {s \in sales : s.product_id = p}
SoldQuantity(p) == SumOver(SalesOf(p), [s \in SalesOf(p) |-> s.quantity])

\* C10: add_sale and add_purchase requests on one product never interleave
\* their read-check-write of stock and remaining_quantity, so two sales never
\* both succeed on stock that suffices for one: for every product the total
\* quantity of the committed sales stays within the total purchased quantity.
C10_NoOverselling ==
    \A p \in ProductIds : SoldQuantity(p) <= PurchasedQuantity(p)

\* C11: a sale's cost_price, quantity and selling_price are fixed at
\* creation: every step keeps every existing sale row as it is, except the
\* delete_sale of that very sale.
C11_SaleRowsFixed ==
    [][\A s \in sales :
          s \in sales' \/ (SaleDeleteStep /\ last'.id = s.id)
    ]_vars

\* C11 witness: the lot a sale consumed has just been deleted and the sale is
\* still there.
C11_Witness ==
    /\ last.op = "delete_purchase" /\ last.flash = PurchaseDeleted
    /\ \E s \in sales : s.product_id = last.product_id
    /\ LotsOf(last.product_id) = {}

\* ------------------------------------------------------- Product.get_stock_value
RECURSIVE StockValueWalk(_, _, _, _)
\* The for loop of get_stock_value from iteration i on.
StockValueWalk(order, i, remaining_qty, total_value) ==
    IF i > Len(order) \/ remaining_qty <= 0 THEN total_value
    ELSE LET purchase == order[i]
             qty_to_take == Min(purchase.remaining_quantity, remaining_qty)
         IN  StockValueWalk(order, i + 1, remaining_qty - qty_to_take,
                            total_value + qty_to_take * purchase.price)

\* get_stock_value of product p when its query returns the lots in `order`:
\* the walk starts from remaining_qty = self.stock.
get_stock_value(p, order) == StockValueWalk(order, 1, stock[p], 0)

\* Sum over the product's lots of remaining_quantity * price.
LotValue(p) ==
    SumOver(LotsOf(p), [l \in LotsOf(p) |-> l.remaining_quantity * l.price])

\* C12: after any sequence of purchases, sales and reversals, get_stock_value
\* of every product equals the sum over its lots of remaining_quantity * price.
C12_StockValueIsLotValue ==
    \A p \in ProductIds :
        \A order \in FifoOrders(p) : get_stock_value(p, order) = LotValue(p)

\* ------------------------------------------- sales from a stocked product
\* The lots and the sale quantities of the split-sale runs.
SplitLotQuantities == {3, 4, 7}
SplitPrices == {2, 3, 5}
SplitQuantities == {1, 3, 7}

\* The ledger after add_purchase(1, qa, pa) at time 0 and
\* add_purchase(1, qb, pb) at time 1 on the empty ledger.
InitSplit ==
    \E qa \in SplitLotQuantities, pa \in SplitPrices,
       qb \in SplitLotQuantities, pb \in SplitPrices :
        /\ products = ProductIds
        /\ stock = [p \in ProductIds |-> IF p = 1 THEN qa + qb ELSE 0]
        /\ purchases = {NewPurchase(1, 1, qa, pa, qa, 0),
                        NewPurchase(2, 1, qb, pb, qb, 1)}
        /\ sales = {}
        /\ stock_movements =
              {[id |-> 1, product_id |-> 1, purchase_id |-> InflowPurchaseId(1),
                quantity |-> qa, price |-> pa, type |-> "purchase"],
               [id |-> 2, product_id |-> 1, purchase_id |-> InflowPurchaseId(2),
                quantity |-> qb, price |-> pb, type |-> "purchase"]}
        /\ clock = 1
        /\ origin = <<OriginOf("purchase", 1), OriginOf("purchase", 2)>>
        /\ requests = 2
        /\ refused = 0
        /\ sessions = [w \in Workers |-> IdleSession]
        /\ last = Response("add_purchase", 1, qb, 2, PurchaseOk)

NextSplit ==
    /\ \E q \in SplitQuantities, sp \in SellingPrices : add_sale(1, q, sp)
    /\ CountRefused
    /\ UNCHANGED sessions

SpecSplit == InitSplit /\ [][NextSplit]_vars

\* sum(s.quantity * s.cost_price for s in sales) of the profit report, for
\* two sales.
ReportedCost(s1, s2) ==
    FloatAdd(FloatAdd(FloatZero, FloatMulInt(s1.quantity, s1.cost_price)),
             FloatMulInt(s2.quantity, s2.cost_price))

\* C13: two consecutive successful sales of q1 and q2 on one product, nothing
\* between them, leave the same lots with the same remaining quantities as one
\* sale of q1 + q2 from the same starting state, and the two sales'
\* quantity * cost_price add up to the cost of that combined sale.
C13_SplitSaleEqualsCombined ==
    [][(/\ SaleStep
        /\ last.op = "add_sale" /\ last.flash = SaleOk
        /\ last.product_id = last'.product_id)
       => LET p == last'.product_id
              q == last.quantity + last'.quantity
              start == last.pre_purchases
              s1 == CHOOSE s \in sales' : s.id = last.id
              s2 == CHOOSE s \in sales' : s.id = last'.id
          IN  \E order \in OrderedByDate({l \in start : l.product_id = p
                                                        /\ l.remaining_quantity > 0}) :
                LET a == Allocate(order, 1, [remaining_qty |-> q, total_cost |-> 0,
                                             taken |-> <<>>])
                IN  /\ a.remaining_qty = 0
                    /\ purchases' = {[l EXCEPT !.remaining_quantity =
                                                   @ - TakenFrom(a.taken, l.id)]
                                     : l \in start}
                    /\ ReportedCost(s1, s2) = FloatMulInt(q, FloatDiv(a.total_cost, q))
                    /\ ReportedCost(s1, s2) = IntToFloat(a.total_cost)
      ]_vars

PurchaseStep ==
    last'.op = "add_purchase" /\ last'.flash = PurchaseOk /\ requests' = requests + 1

\* C14: a successful add_purchase creates exactly one new lot whose remaining
\* quantity equals the purchased quantity, increases the product's stock by
\* that quantity, creates exactly one movement of type purchase with the
\* positive quantity and the purchase price, and changes no existing lot and
\* no sale.
C14_PurchaseEffect ==
    [][PurchaseStep
       => LET p == last'.product_id
              q == last'.quantity
          IN  /\ \E l \in purchases' \ purchases :
                   /\ purchases' = purchases \cup {l}
                   /\ l.id = last'.id /\ l.id \notin {x.id : x \in purchases}
                   /\ l.product_id = p /\ l.quantity = q
                   /\ l.remaining_quantity = q
                   /\ \E m \in stock_movements' \ stock_movements :
                        /\ stock_movements' = stock_movements \cup {m}
                        /\ m.id \notin {x.id : x \in stock_movements}
                        /\ m.type = "purchase" /\ m.product_id = p
                        /\ m.quantity = q /\ q > 0 /\ m.price = l.price
              /\ stock' = [stock EXCEPT ![p] = @ + q]
              /\ sales' = sales
      ]_vars

\* C14 witness: a purchase has just been recorded on a ledger that already
\* held a lot and a sale.
C14_Witness ==
    /\ last.op = "add_purchase" /\ last.flash = PurchaseOk
    /\ Cardinality(purchases) = 2
    /\ sales # {}

\* C15: a successful add_sale of quantity q decreases the product's stock by
\* exactly q and adds exactly one movement for every lot it took from, of
\* type sale, referencing that lot, with quantity minus the amount taken and
\* the lot's price as price; it adds no movement for a lot it did not touch.
C15_SaleEffect ==
    [][SaleStep
       => LET p == last'.product_id
              q == last'.quantity
              created == stock_movements' \ stock_movements
          IN  /\ stock' = [stock EXCEPT ![p] = @ - q]
              /\ stock_movements \subseteq stock_movements'
              /\ \A m \in created : \E l \in LotsOf(p) : m.purchase_id = l.id
              /\ \A l \in LotsOf(p) :
                   LET taken == l.remaining_quantity - RemainingAfter(l.id)
                       ms == {m \in created : m.purchase_id = l.id}
                   IN  IF taken > 0
                       THEN /\ Cardinality({m.id : m \in ms}) = 1
                            /\ \A m \in ms : /\ m.type = "sale" /\ m.product_id = p
                                             /\ m.quantity = 0 - taken
                                             /\ m.price = l.price
                       ELSE ms = {}
      ]_vars

\* C15 witness: a sale has just taken from one of the product's two open
\* lots and left the other untouched.
C15_Witness ==
    /\ last.op = "add_sale" /\ last.flash = SaleOk
    /\ LET open == {l \in last.pre_purchases : l.product_id = last.product_id
                                                /\ l.remaining_quantity > 0}
       IN  /\ Cardinality(open) = 2
           /\ \E l \in open : l \in purchases
           /\ \E l \in open : l \notin purchases

\* C16: a product is never deleted while it owns a lot or a sale: every step
\* keeps such a product, and delete_product called on it is refused by the
\* admin check or the transaction check and leaves the products, the lots,
\* the sales, the movements and the stocks as they are.
C16_ProductInUseKept ==
    [][\A id \in products :
          (\/ \E l \in purchases : l.product_id = id
           \/ \E s \in sales : s.product_id = id)
          => /\ id \in products'
             /\ last'.op = "delete_product"
                => \A is_admin \in BOOLEAN :
                     delete_product(id, is_admin)
                     => /\ last'.flash \in {AccessDenied, ProductInUse}
                        /\ UNCHANGED <<products, stock, purchases, sales,
                                       stock_movements>>
    ]_vars

\* C16 witness: delete_product has just been refused for a product whose
\* only transaction is a sale (its lot was deleted).
C16_Witness ==
    /\ last.op = "delete_product" /\ last.flash = ProductInUse
    /\ \E s \in sales : s.product_id = last.product_id
    /\ LotsOf(last.product_id) = {}

\* C17: an operation on one product leaves every other product's stock,
\* lots, sales and movements unchanged (and the other product in place).
C17_OtherProductsUntouched ==
    [][\A b \in ProductIds :
          b # last'.product_id
          => /\ stock'[b] = stock[b]
             /\ (b \in products') = (b \in products)
             /\ {l \in purchases' : l.product_id = b} = LotsOf(b)
             /\ {s \in sales' : s.product_id = b} = {s \in sales : s.product_id = b}
             /\ {m \in stock_movements' : m.product_id = b}
                   = {m \in stock_movements : m.product_id = b}
    ]_vars

\* C17 witness: a sale on one product has just been committed while another
\* product holds an open lot.
C17_Witness ==
    /\ last.op = "add_sale" /\ last.flash = SaleOk
    /\ \E l \in purchases : l.product_id # last.product_id /\ l.remaining_quantity > 0

\* C18: the cached product.stock is never silently trusted when it disagrees
\* with the total of the product's lots: add_sale on such a product is
\* refused and commits nothing, whatever quantity is asked for.
C18_DisagreeingStockRefused ==
    [][last'.op = "add_sale"
       => \A p \in products, q \in Quantities, sp \in SellingPrices :
            (stock[p] # SumRemaining(p) /\ q > 0 /\ sp > 0 /\ add_sale(p, q, sp))
            => /\ last'.flash \in Refusals
               /\ UNCHANGED <<stock, purchases, sales, stock_movements>>
    ]_vars

\* C19: add_purchase with a quantity or a price that is not positive,
\* add_sale with a quantity or a selling price that is not positive, and
\* either of them with a missing or unknown product id, are refused and leave
\* the products, stocks, lots, sales and movements unchanged: a step that is
\* not such a refusal is the step of no such request.
C19_InvalidInputRefused ==
    [][LET turned_down == /\ last'.flash \in {InvalidData, NotFound}
                          /\ UNCHANGED <<products, stock, purchases, sales, stock_movements>>
       IN  /\ (last'.op = "add_purchase" /\ ~turned_down)
              => \A p \in ProductInputs, q \in Quantities, price \in Prices :
                   (p = 0 \/ p \notin products \/ q <= 0 \/ price <= 0)
                   => ~add_purchase(p, q, price)
           /\ (last'.op = "add_sale" /\ ~turned_down)
              => \A p \in ProductInputs, q \in Quantities, sp \in SellingPrices :
                   (p = 0 \/ p \notin products \/ q <= 0 \/ sp <= 0)
                   => ~add_sale(p, q, sp)
    ]_vars

\* C19 witness: a request with invalid data has just been refused on a
\* ledger that holds a lot and a sale.
C19_Witness ==
    /\ last.flash = InvalidData
    /\ purchases # {} /\ sales # {}

\* C20: the allocation order is total: when two open lots of the product
\* carry the same date, add_sale takes from the lot with the lower id first,
\* so the later lot is touched only after the earlier one is used up.
C20_TiesByLotId ==
    [][SaleStep
       => \A l1, l2 \in OpenLots(last'.product_id) :
            (/\ l1.date = l2.date /\ l1.id < l2.id
             /\ RemainingAfter(l2.id) < l2.remaining_quantity)
            => RemainingAfter(l1.id) = 0
    ]_vars

\* ----------------------------------------------------- Product.get_average_price
\* total_qty: sum(p.quantity for p in purchases).
TotalQty(lots) == SumOver(lots, [l \in lots |-> l.quantity])

\* total_value: sum(p.quantity * p.price for p in purchases).
TotalValue(lots) == SumOver(lots, [l \in lots |-> l.quantity * l.price])

\* The body of get_average_price on the rows its query returned: 0 without
\* purchases, otherwise the float quotient total_value / total_qty.
AveragePrice(lots) ==
    IF lots = {} THEN FloatZero
    ELSE IF TotalQty(lots) > 0
         THEN FloatDiv(TotalValue(lots), TotalQty(lots))
         ELSE FloatZero

\* Purchase.query.filter_by(product_id=self.id).all(), then the body.
get_average_price(p) == AveragePrice(LotsOf(p))

\* C21: get_average_price is the quantity-weighted average price over the
\* product's lots at their original quantity: the result times the sum of the
\* quantities equals the sum of quantity * price; it is 0 when the product has
\* no lots; and no sale and no sale reversal changes it.
C21_AveragePrice ==
    /\ [](\A p \in ProductIds :
             /\ LotsOf(p) = {} => get_average_price(p) = FloatZero
             /\ FloatMulInt(TotalQty(LotsOf(p)), get_average_price(p))
                   = IntToFloat(TotalValue(LotsOf(p))))
    /\ [][(SaleStep \/ SaleDeleteStep)
          => \A p \in ProductIds :
               AveragePrice({l \in purchases' : l.product_id = p}) = get_average_price(p)
         ]_vars

\* ------------------------------------------------------------ profit_loss_report
\* Sale.date.between(start_date, end_date) without the upper end.
BetweenHalfOpen(x, start_date, end_date) == start_date <= x /\ x < end_date

\* x BETWEEN start_date AND end_date of SQL: both ends included.
Between(x, start_date, end_date) == start_date <= x /\ x <= end_date

\* Sale.query.filter(Sale.date.between(start_date, end_date)).all()
SalesBetween(start_date, end_date) ==
    {s \in sales : Between(s.date, start_date, end_date)}

RECURSIVE FloatSum(_, _, _)
\* sum(...) over rows, taken by ascending id, the float terms given by f.
FloatSum(rows, f, acc) ==
    IF rows = {} THEN acc
    ELSE LET r == CHOOSE x \in rows : \A y \in rows : x.id <= y.id
         IN  FloatSum(rows \ {r}, f, FloatAdd(acc, f[r]))

\* The totals of the report for the period [start_date, end_date].
profit_loss_report(start_date, end_date) ==
    LET rows == SalesBetween(start_date, end_date)
        total_sales == FloatSum(rows, [s \in rows |->
                                  IntToFloat(s.quantity * s.selling_price)], FloatZero)
        total_cost == FloatSum(rows, [s \in rows |->
                                  FloatMulInt(s.quantity, s.cost_price)], FloatZero)
    IN  [total_sales |-> total_sales, total_cost |-> total_cost,
         gross_profit |-> FloatSub(total_sales, total_cost)]

\* C22: the profit report of a period counts exactly the sales whose date
\* lies in the closed interval [start, end]: its revenue is the sum of
\* quantity * selling_price and its cost the sum of quantity * cost_price over
\* those sales, its gross profit is revenue minus cost, and sales outside the
\* interval and deleted sales contribute nothing.
C22_ProfitOfPeriod ==
    \A start \in 0..MaxTime, end \in 0..MaxTime :
        start <= end
        => LET report == profit_loss_report(start, end)
               counted == {s \in sales : start <= s.date /\ s.date <= end}
           IN  /\ report.total_sales
                     = IntToFloat(SumOver(counted, [s \in counted |->
                                                      s.quantity * s.selling_price]))
               /\ report.total_cost
                     = FloatSum(counted, [s \in counted |->
                                            FloatMulInt(s.quantity, s.cost_price)],
                                FloatZero)
               /\ report.gross_profit = FloatSub(report.total_sales, report.total_cost)

\* C22 witness: two sales of different dates exist, so that a one-day period
\* counts one of them and leaves the other out.
C22_Witness ==
    /\ \E s1, s2 \in sales : s1.date < s2.date
    /\ profit_loss_report(0, 0).total_sales # FloatZero
    /\ profit_loss_report(0, 0).total_sales # profit_loss_report(0, MaxTime).total_sales

\* C23: product.stock is never negative, whatever sequence of add_purchase,
\* add_sale, delete_purchase and delete_sale has run.
C23_StockNeverNegative == \A p \in ProductIds : stock[p] >= 0

\* C24: the lots of a product keep the FIFO prefix shape: a lot purchased
\* strictly later than another lot of the product has lost quantity only if
\* the earlier lot has nothing left.
C24_FifoPrefixShape ==
    \A p \in ProductIds :
        \A l1, l2 \in LotsOf(p) :
            (l1.date < l2.date /\ l2.remaining_quantity < l2.quantity)
            => l1.remaining_quantity = 0

\* C24 witness: a sale has used up the earlier lot of a product and taken
\* part of a lot purchased strictly later.
C24_Witness ==
    \E l1, l2 \in purchases :
        /\ l1.product_id = l2.product_id /\ l1.date < l2.date
        /\ l1.remaining_quantity = 0
        /\ 0 < l2.remaining_quantity /\ l2.remaining_quantity < l2.quantity

\* The signed quantities of the product's movements added up.
MovementTotal(p) ==
    LET ms == {m \in stock_movements : m.product_id = p}
    IN  SumOver(ms, [m \in ms |-> m.quantity])

\* C25: the movement trail accounts for the stock: for every product the sum
\* of the signed quantities of its movements equals product.stock.
C25_MovementsAccountForStock == \A p \in ProductIds : MovementTotal(p) = stock[p]

====
